---- MODULE Spec2Model ----
(***************************************************************************)
(* dynout: dynamic terminal output.                                        *)
(*                                                                         *)
(* A model of OutputEntry (output_entry.ts), OutputBuffer and Output       *)
(* (output.ts): entries, their memoized lines, the displayed buffer, the   *)
(* coalescing timer, the throttle, and the terminal the render pass        *)
(* writes to.                                                              *)
(*                                                                         *)
(* Conventions.  A text is a sequence of one-character strings.  Indices   *)
(* of the source (line indices, entry indices) are 0-based; a TLA+         *)
(* sequence is 1-based, so the line with index i is lines[i + 1].          *)
(* A content field is [t |-> "string", v |-> text] or                      *)
(* [t |-> "undefined", v |-> <<>>].                                        *)
(***************************************************************************)
EXTENDS Integers, Sequences, FiniteSets, TLC

\* ---------------------------------------------------------------- bounds

\* The number of entries the caller creates (line, dline, _outsideLineWritten).
MaxEntries == 2

\* The number of calls the caller makes.
MaxOps == 4

\* ------------------------------------------------------------------ text

NL == "\n"

Max(a, b) == IF a >= b THEN a ELSE b

Min(a, b) == IF a <= b THEN a ELSE b

Str(s) == [t |-> "string", v |-> s]

Undefined == [t |-> "undefined", v |-> <<>>]

\* JavaScript truthiness of a field: undefined and the empty string are falsy.
Truthy(e) == e.t = "string" /\ e.v # <<>>

\* Array.prototype.filter((e) => e)
RECURSIVE FilterTruthy(_)
FilterTruthy(fields) ==
  IF fields = <<>> THEN <<>>
  ELSE IF Truthy(Head(fields))
       THEN <<Head(fields)>> \o FilterTruthy(Tail(fields))
       ELSE FilterTruthy(Tail(fields))

\* String(e) of a field that passed the filter.
ToText(e) == IF e.t = "string" THEN e.v ELSE <<"u", "n", "d", "e", "f", "i", "n", "e", "d">>

\* Array.prototype.join(separator) over texts.
RECURSIVE Join(_, _)
Join(texts, separator) ==
  IF texts = <<>> THEN <<>>
  ELSE IF Len(texts) = 1 THEN Head(texts)
  ELSE Head(texts) \o separator \o Join(Tail(texts), separator)

\* String.prototype.split("\n"): always at least one row; "" splits to [""].
RECURSIVE SplitNL(_)
SplitNL(text) ==
  IF \A i \in 1..Len(text) : text[i] # NL THEN <<text>>
  ELSE LET k == CHOOSE i \in 1..Len(text) :
                  text[i] = NL /\ \A j \in 1..(i - 1) : text[j] # NL
       IN <<SubSeq(text, 1, k - 1)>> \o SplitNL(SubSeq(text, k + 1, Len(text)))

\* ----------------------------------------------------------------- entry

\* contentMemo = undefined.  A computed memo is never empty (split returns
\* at least one row), so the empty sequence stands for undefined.
NoMemo == <<>>

\* new OutputLine(entry, txt)
OutputLine(entry, txt) == [content |-> txt, entryClosed |-> entry.isClosed]

\* new OutputEntry(manager, initialContent)
NewEntry(initialContent) ==
  [content |-> initialContent, separator |-> <<" ">>, isClosed |-> FALSE,
   isDeleted |-> FALSE, contentMemo |-> NoMemo]

\* The lines getContent() computes when there is no memo.
ComputeLines(entry) ==
  LET fields == FilterTruthy(entry.content)
      texts == [i \in 1..Len(fields) |-> ToText(fields[i])]
      rows == SplitNL(Join(texts, entry.separator))
  IN [i \in 1..Len(rows) |-> OutputLine(entry, rows[i])]

\* The value getContent() returns.
GetContent(entry) ==
  IF entry.contentMemo # NoMemo THEN entry.contentMemo ELSE ComputeLines(entry)

\* The entry after getContent(): the memo is set.
AfterGetContent(entry) == [entry EXCEPT !.contentMemo = GetContent(entry)]

\* The texts of a sequence of lines.
Texts(lines) == [i \in 1..Len(lines) |-> lines[i].content]

\* ---------------------------------------------------------------- buffer

\* new OutputBuffer()
EmptyBuffer == [lines |-> <<>>, firstOpenLineIdx |-> 0]

\* OutputBuffer.put: the lines are appended; firstOpenLineIdx is set to the
\* loop index i (the index within the lines passed) of the first line of
\* this call whose entryClosed is false, and is left alone when there is none.
Put(buf, lines) ==
  LET open == {i \in 1..Len(lines) : ~lines[i].entryClosed}
  IN [lines |-> buf.lines \o lines,
      firstOpenLineIdx |->
        IF open = {} THEN buf.firstOpenLineIdx
        ELSE (CHOOSE i \in open : \A j \in open : i <= j) - 1]

\* this.lines[i]?.content, with i 0-based: undefined beyond the end.
ContentAt(buf, i) ==
  IF i >= 0 /\ i < Len(buf.lines)
  THEN [def |-> TRUE, v |-> buf.lines[i + 1].content]
  ELSE [def |-> FALSE, v |-> <<>>]

\* The result null of findFirstDifferentLine.
Null == -1

\* findFirstDifferentLine scanning to the shorter of the two buffers.
FindFirstDifferentLineMin(this, buff) ==
  LET lim == Min(Len(this.lines), Len(buff.lines))
      diff == {i \in this.firstOpenLineIdx..(lim - 1) :
                 ContentAt(this, i) # ContentAt(buff, i)}
  IN IF diff = {} THEN Null ELSE CHOOSE i \in diff : \A j \in diff : i <= j

\* findFirstDifferentLine scanning from the line after the first open one.
FindFirstDifferentLineSkipsFirst(this, buff) ==
  LET lim == Max(Len(this.lines), Len(buff.lines))
      diff == {i \in (this.firstOpenLineIdx + 1)..(lim - 1) :
                 ContentAt(this, i) # ContentAt(buff, i)}
  IN IF diff = {} THEN Null ELSE CHOOSE i \in diff : \A j \in diff : i <= j

\* OutputBuffer.findFirstDifferentLine
FindFirstDifferentLine(this, buff) ==
  LET lim == Max(Len(this.lines), Len(buff.lines))
      diff == {i \in this.firstOpenLineIdx..(lim - 1) :
                 ContentAt(this, i) # ContentAt(buff, i)}
  IN IF diff = {} THEN Null ELSE CHOOSE i \in diff : \A j \in diff : i <= j

\* OutputBuffer.lineCount
LineCount(buf) == Len(buf.lines)

\* OutputBuffer.slice
Slice(buf, fromLineIdx) ==
  IF fromLineIdx >= Len(buf.lines) THEN <<>>
  ELSE SubSeq(buf.lines, Max(fromLineIdx, 0) + 1, Len(buf.lines))

\* -------------------------------------------------------------- terminal

CR == "\r"

\* The operations on process.stdout.
OpMoveCursor(dy) == [op |-> "moveCursor", dy |-> dy, text |-> <<>>]

OpClearLine == [op |-> "clearLine", dy |-> 0, text |-> <<>>]

OpWrite(text) == [op |-> "write", dy |-> 0, text |-> text]

\* process.stdout.write("\u001b[T\u001b[2K"): scroll down one row, then
\* erase the row of the cursor.
OpScrollErase == [op |-> "scrollErase", dy |-> 0, text |-> <<>>]

\* replaceStdoutLine without the move of the cursor back down.
ReplaceStdoutLineStaysUp(lineIdx, replacement) ==
  <<OpMoveCursor(-lineIdx), OpClearLine,
    OpWrite(<<CR>> \o replacement \o <<CR>>)>>

\* Output.replaceStdoutLine
ReplaceStdoutLine(lineIdx, replacement) ==
  <<OpMoveCursor(-lineIdx), OpClearLine,
    OpWrite(<<CR>> \o replacement \o <<CR>>), OpMoveCursor(lineIdx)>>

\* The terminal: the rows written so far, the row of the cursor (0-based,
\* counted from the first row written) and its column.
EmptyTerminal == [rows |-> <<>>, cursor |-> 0, col |-> 0]

\* rows with blank rows added so that the row with 0-based index r exists.
RECURSIVE PadRows(_, _)
PadRows(rows, r) == IF Len(rows) > r THEN rows ELSE PadRows(Append(rows, <<>>), r)

\* A row with spaces added so that column c exists.
RECURSIVE PadRow(_, _)
PadRow(row, c) == IF Len(row) > c THEN row ELSE PadRow(Append(row, " "), c)

\* One character written at the cursor.
PutChar(term, ch) ==
  IF ch = CR THEN [term EXCEPT !.col = 0]
  ELSE IF ch = NL THEN [term EXCEPT !.cursor = term.cursor + 1, !.col = 0]
  ELSE LET rows == PadRows(term.rows, term.cursor)
           row == PadRow(rows[term.cursor + 1], term.col)
       IN [rows |-> [rows EXCEPT ![term.cursor + 1] = [row EXCEPT ![term.col + 1] = ch]],
           cursor |-> term.cursor, col |-> term.col + 1]

RECURSIVE WriteText(_, _)
WriteText(term, text) ==
  IF text = <<>> THEN term ELSE WriteText(PutChar(term, Head(text)), Tail(text))

\* The terminal after one operation.  Scrolling down moves every row one
\* row down under a cursor that stays: counted from the first row written,
\* the cursor is then one row higher, and the row erased is the one that
\* was just above it.
ApplyOp(term, o) ==
  IF o.op = "moveCursor" THEN [term EXCEPT !.cursor = Max(0, term.cursor + o.dy)]
  ELSE IF o.op = "clearLine"
  THEN [term EXCEPT !.rows = [PadRows(term.rows, term.cursor) EXCEPT ![term.cursor + 1] = <<>>]]
  ELSE IF o.op = "write" THEN WriteText(term, o.text)
  ELSE IF term.cursor = 0 THEN [term EXCEPT !.rows = <<<<>>>> \o term.rows]
  ELSE [term EXCEPT !.rows = [PadRows(term.rows, term.cursor - 1) EXCEPT ![term.cursor] = <<>>],
                    !.cursor = term.cursor - 1]

RECURSIVE ApplyOps(_, _)
ApplyOps(term, ops) ==
  IF ops = <<>> THEN term ELSE ApplyOps(ApplyOp(term, Head(ops)), Tail(ops))

\* The rows above the cursor: what the terminal shows.
Shown(term) == SubSeq(PadRows(term.rows, term.cursor), 1, term.cursor)

\* ----------------------------------------------------------- render pass

\* The candidate buffer of a render pass: the lines of getContent() of every
\* entry that is not deleted, in the order of outEntries.
RECURSIVE BuildBuffer(_, _)
BuildBuffer(entries, buf) ==
  IF entries = <<>> THEN buf
  ELSE BuildBuffer(Tail(entries),
                   IF Head(entries).isDeleted THEN buf
                   ELSE Put(buf, GetContent(Head(entries))))

\* The entries after the pass: getContent() has set the memo of those read.
EntriesAfterBuild(entries) ==
  [i \in 1..Len(entries) |->
     IF entries[i].isDeleted THEN entries[i] ELSE AfterGetContent(entries[i])]

\* The clear/rewrite loop rewriting one row above the row it is at.
RECURSIVE ClearLoopOneAbove(_, _)
ClearLoopOneAbove(i, replacementLines) ==
  IF i <= 0 THEN <<>>
  ELSE IF replacementLines # <<>>
       THEN ReplaceStdoutLine(i + 1, Head(replacementLines).content)
              \o ClearLoopOneAbove(i - 1, Tail(replacementLines))
       ELSE <<OpScrollErase>> \o ClearLoopOneAbove(i - 1, replacementLines)

\* The clear/rewrite loop: i runs from linesToClear down to 1, each step
\* shifting one replacement line, or deleting a row when none is left.
RECURSIVE ClearLoop(_, _)
ClearLoop(i, replacementLines) ==
  IF i <= 0 THEN <<>>
  ELSE IF replacementLines # <<>>
       THEN ReplaceStdoutLine(i, Head(replacementLines).content)
              \o ClearLoop(i - 1, Tail(replacementLines))
       ELSE <<OpScrollErase>> \o ClearLoop(i - 1, replacementLines)

\* The replacement lines, none taken off by the clear/rewrite loop.
LeftAfterLoopKeepsAll(linesToClear, replacementLines) == replacementLines

\* The replacement lines left after the clear/rewrite loop.
LeftAfterLoop(linesToClear, replacementLines) ==
  IF linesToClear <= 0 THEN replacementLines
  ELSE IF linesToClear >= Len(replacementLines) THEN <<>>
  ELSE SubSeq(replacementLines, linesToClear + 1, Len(replacementLines))

\* The terminal operations of a render pass that found startIdx.
RenderOps(cur, new, startIdx) ==
  LET linesToClear == LineCount(cur) - startIdx
      replacementLines == Slice(new, startIdx)
      left == LeftAfterLoop(linesToClear, replacementLines)
  IN ClearLoop(linesToClear, replacementLines)
       \o [i \in 1..Len(left) |-> OpWrite(left[i].content \o <<NL>>)]

\* ---------------------------------------------------------- entry methods

\* The arguments of a call.  Content is a string or an array of fields; a
\* separator argument may be left out; the rerender argument of
\* setSeparator is true, false or left out.
InString(s) == [k |-> "string", s |-> s, a |-> <<>>]

InArray(a) == [k |-> "array", s |-> <<>>, a |-> a]

SepArg(s) == [def |-> TRUE, s |-> s]

SepUndefined == [def |-> FALSE, s |-> <<>>]

\* update's argument: a value, or a function of the current content.
Value(a) == [k |-> "value", a |-> a, fn |-> "none"]

Fn(name) == [k |-> "function", a |-> <<>>, fn |-> name]

Reverse(a) == [i \in 1..Len(a) |-> a[Len(a) + 1 - i]]

\* Whether the call value(current) throws, and what it returns when it does not.
Throws(value) == value.k = "function" /\ value.fn = "throws"

Returned(value, current) == Reverse(current)

\* What a method returns: the entry (this), or undefined.
This(i) == [k |-> "entry", e |-> i]

RetUndefined == [k |-> "undefined", e |-> 0]

\* JavaScript truthiness of the rerender argument.
RerenderTruthy(rerender) == rerender = "true"

\* OutputEntry.setSeparator: the entry after the call, and whether
\* manager._rerender() is called.
SetSeparator(entry, separator, rerender) ==
  [entry |-> [entry EXCEPT !.separator = separator, !.contentMemo = NoMemo],
   rerender |-> RerenderTruthy(rerender) /\ entry.separator # separator]

\* update without the test of _isClosed.
UpdateNoClosedGuard(entry, value) ==
  IF Throws(value)
  THEN [entry |-> [entry EXCEPT !.contentMemo = NoMemo],
        rerender |-> FALSE, threw |-> TRUE, returnsThis |-> TRUE]
  ELSE [entry |-> [entry EXCEPT !.contentMemo = NoMemo,
                                !.content = IF value.k = "function"
                                            THEN Returned(value, entry.content)
                                            ELSE value.a],
        rerender |-> TRUE, threw |-> FALSE, returnsThis |-> TRUE]

\* update calling _rerender after the try block, also when the function threw.
UpdateRerendersOnThrow(entry, value) ==
  IF entry.isClosed
  THEN [entry |-> entry, rerender |-> FALSE, threw |-> FALSE, returnsThis |-> FALSE]
  ELSE IF Throws(value)
  THEN [entry |-> [entry EXCEPT !.contentMemo = NoMemo],
        rerender |-> TRUE, threw |-> TRUE, returnsThis |-> TRUE]
  ELSE [entry |-> [entry EXCEPT !.contentMemo = NoMemo,
                                !.content = IF value.k = "function"
                                            THEN Returned(value, entry.content)
                                            ELSE value.a],
        rerender |-> TRUE, threw |-> FALSE, returnsThis |-> TRUE]

\* OutputEntry.update: the entry after the call, whether manager._rerender()
\* is called, whether the function threw, and whether this is returned.
Update(entry, value) ==
  IF entry.isClosed
  THEN [entry |-> entry, rerender |-> FALSE, threw |-> FALSE, returnsThis |-> FALSE]
  ELSE IF Throws(value)
  THEN [entry |-> [entry EXCEPT !.contentMemo = NoMemo],
        rerender |-> FALSE, threw |-> TRUE, returnsThis |-> TRUE]
  ELSE [entry |-> [entry EXCEPT !.contentMemo = NoMemo,
                                !.content = IF value.k = "function"
                                            THEN Returned(value, entry.content)
                                            ELSE value.a],
        rerender |-> TRUE, threw |-> FALSE, returnsThis |-> TRUE]

\* delete without closing the entry.
DeleteLeavesOpen(entry) ==
  [entry EXCEPT !.isDeleted = TRUE, !.contentMemo = NoMemo, !.content = <<>>]

\* OutputEntry.delete
Delete(entry) ==
  [entry EXCEPT !.isClosed = TRUE, !.isDeleted = TRUE,
                !.contentMemo = NoMemo, !.content = <<>>]

\* OutputEntry.close
Close(entry) == [entry EXCEPT !.isClosed = TRUE]

\* ------------------------------------------------------- throttle period

\* The wait period runThrottled is created with, in milliseconds.
DefaultWait == 1000

\* The largest fps a caller passes to setMaxFps.
MaxFps == 1001

\* The period of setMaxFps without the lower limit of one millisecond.
MaxFpsWaitUnclamped(fps) == 1000 \div fps

\* The argument setMaxFps passes to setWait: Math.max(1, Math.floor(1000 / fps)).
MaxFpsWait(fps) == Max(1, 1000 \div fps)

\* ----------------------------------------------------------------- state

VARIABLES
  outEntries,      \* Output.outEntries
  currentBuffer,   \* Output.currentBuffer
  isRenderQueued,  \* Output.isRenderQueued
  timers,          \* the setTimeout callbacks of _rerender that are pending
  throttle,        \* runThrottled: in its wait period, and a trailing call pending
  term,            \* the terminal
  handles,         \* the indices (0-based) of the entries dline returned
  ret,             \* what the last call returned
  last,            \* the last step: its operation and what it did
  windowReqs,      \* the _rerender calls made since the pending timer was set
  dirty,           \* a render was requested and no render pass has run since
  ext,             \* the rows registered by _outsideLineWritten
  nOps,            \* the calls made so far
  stdout,          \* the terminal operations the last step issued
  wait,            \* the wait period of runThrottled, in milliseconds
  maxFps           \* the argument of the last setMaxFps call, 0 before any

vars == <<outEntries, currentBuffer, isRenderQueued, timers, throttle, term,
          handles, ret, last, windowReqs, dirty, ext, nOps, stdout, wait,
          maxFps>>

\* The record of a step.  op: the method called, "timer" or "throttle"; e:
\* the index of its entry; arg: the rerender argument of setSeparator;
\* rerenders: the _rerender calls of the step; threw: an update function
\* threw; reqs: for a timer, the _rerender calls made while it was pending;
\* invoked: the runThrottled calls of the step; pass: a render pass ran.
Step(op, e, arg, rerenders, threw, reqs, invoked, pass) ==
  [op |-> op, e |-> e, arg |-> arg, rerenders |-> rerenders, threw |-> threw,
   reqs |-> reqs, invoked |-> invoked, pass |-> pass]

\* The step of a method call.
Call(op, e, arg, rerenders, threw) == Step(op, e, arg, rerenders, threw, 0, 0, FALSE)

Init ==
  /\ outEntries = <<>>
  /\ currentBuffer = EmptyBuffer
  /\ isRenderQueued = FALSE
  /\ timers = 0
  /\ throttle = [cooling |-> FALSE, trailing |-> FALSE]
  /\ term = EmptyTerminal
  /\ handles = {}
  /\ ret = RetUndefined
  /\ last = Call("init", 0, "", 0, FALSE)
  /\ windowReqs = 0
  /\ dirty = FALSE
  /\ ext = <<>>
  /\ nOps = 0
  /\ stdout = <<>>
  /\ wait = DefaultWait
  /\ maxFps = 0

\* ------------------------------------------------------------- scheduling

\* _rerender without the assignment isRenderQueued = true.
RerenderQueuedNeverSet(queued, n) == queued

\* Output._rerender, called n times in a row (n is 0 or 1 in every method):
\* a call while a render is queued returns; otherwise the flag is set and a
\* timer is started.
RerenderQueued(queued, n) == queued \/ n > 0

\* _rerender without the test of isRenderQueued: every call starts a timer.
RerenderTimersNoGuard(queued, pending, n) == pending + n

RerenderTimers(queued, pending, n) ==
  IF n > 0 /\ ~queued THEN pending + 1 ELSE pending

\* The effect of a method that calls _rerender n times.
Rerender(n) ==
  /\ isRenderQueued' = RerenderQueued(isRenderQueued, n)
  /\ timers' = RerenderTimers(isRenderQueued, timers, n)
  /\ windowReqs' = windowReqs + n
  /\ dirty' = (dirty \/ n > 0)

\* A render pass that takes the new buffer also when nothing differs.
RenderPassAlwaysSwaps ==
  LET newBuffer == BuildBuffer(outEntries, EmptyBuffer)
      startIdx == FindFirstDifferentLine(currentBuffer, newBuffer)
  IN /\ outEntries' = EntriesAfterBuild(outEntries)
     /\ IF startIdx = Null
        THEN /\ UNCHANGED term
             /\ stdout' = <<>>
        ELSE /\ stdout' = RenderOps(currentBuffer, newBuffer, startIdx)
             /\ term' = ApplyOps(term, RenderOps(currentBuffer, newBuffer, startIdx))
     /\ currentBuffer' = newBuffer
     /\ dirty' = FALSE

\* The function passed to runThrottled: one render pass.
RenderPass ==
  LET newBuffer == BuildBuffer(outEntries, EmptyBuffer)
      startIdx == FindFirstDifferentLine(currentBuffer, newBuffer)
  IN /\ outEntries' = EntriesAfterBuild(outEntries)
     /\ IF startIdx = Null
        THEN /\ UNCHANGED <<currentBuffer, term>>
             /\ stdout' = <<>>
        ELSE /\ stdout' = RenderOps(currentBuffer, newBuffer, startIdx)
             /\ term' = ApplyOps(term, RenderOps(currentBuffer, newBuffer, startIdx))
             /\ currentBuffer' = newBuffer
     /\ dirty' = FALSE

\* runThrottled(fn), leading and trailing: the throttle after the call, and
\* whether fn runs at once.  Outside its wait period the throttle runs fn
\* and starts the period; inside it keeps fn as the trailing call.
ThrottleCall(th) ==
  IF th.cooling
  THEN [throttle |-> [th EXCEPT !.trailing = TRUE], run |-> FALSE]
  ELSE [throttle |-> [th EXCEPT !.cooling = TRUE], run |-> TRUE]

\* The wait period ends: a trailing call runs now and a new period starts;
\* with none the throttle is idle again.
ThrottleWaited(th) ==
  IF th.trailing
  THEN [throttle |-> [th EXCEPT !.trailing = FALSE], run |-> TRUE]
  ELSE [throttle |-> [th EXCEPT !.cooling = FALSE], run |-> FALSE]

\* The callback of setTimeout without the reset of isRenderQueued.
TimerFireKeepsFlag ==
  LET t == ThrottleCall(throttle)
  IN /\ timers > 0
     /\ timers' = timers - 1
     /\ windowReqs' = 0
     /\ throttle' = t.throttle
     /\ IF t.run THEN RenderPass
        ELSE /\ UNCHANGED <<outEntries, currentBuffer, term, dirty>>
             /\ stdout' = <<>>
     /\ last' = Step("timer", 0, "", 0, FALSE, windowReqs, 1, t.run)
     /\ UNCHANGED <<isRenderQueued, handles, ret, ext, nOps, wait, maxFps>>

\* The callback of setTimeout: the flag is cleared and runThrottled is called.
TimerFire ==
  LET t == ThrottleCall(throttle)
  IN /\ timers > 0
     /\ timers' = timers - 1
     /\ isRenderQueued' = FALSE
     /\ windowReqs' = 0
     /\ throttle' = t.throttle
     /\ IF t.run THEN RenderPass
        ELSE /\ UNCHANGED <<outEntries, currentBuffer, term, dirty>>
             /\ stdout' = <<>>
     /\ last' = Step("timer", 0, "", 0, FALSE, windowReqs, 1, t.run)
     /\ UNCHANGED <<handles, ret, ext, nOps, wait, maxFps>>

\* The timer of the throttle: its wait period is over.
ThrottleElapse ==
  LET t == ThrottleWaited(throttle)
  IN /\ throttle.cooling
     /\ throttle' = t.throttle
     /\ IF t.run THEN RenderPass
        ELSE /\ UNCHANGED <<outEntries, currentBuffer, term, dirty>>
             /\ stdout' = <<>>
     /\ last' = Step("throttle", 0, "", 0, FALSE, 0, 0, t.run)
     /\ UNCHANGED <<isRenderQueued, timers, handles, ret, windowReqs, ext, nOps, wait, maxFps>>

\* Output.setMaxFps(fps): the wait period of runThrottled is set.
SetMaxFps(fps) ==
  /\ wait' = MaxFpsWait(fps)
  /\ maxFps' = fps
  /\ stdout' = <<>>
  /\ UNCHANGED <<outEntries, currentBuffer, isRenderQueued, timers, throttle,
                 term, handles, ret, last, windowReqs, dirty, ext, nOps>>

\* ---------------------------------------------------------------- inputs

\* The arguments a caller passes to dline: content and separator.
DlineArgs ==
  {<<InString(<<"a">>), SepUndefined>>,
   <<InArray(<<Str(<<"a">>), Undefined, Str(<<"b">>)>>), SepArg(<<"-">>)>>}

\* The arguments a caller passes to line: content and separator.
LineArgs ==
  {<<InString(<<"b">>), SepUndefined>>,
   <<InArray(<<Str(<<"a">>), Str(<<"b">>)>>), SepArg(<<>>)>>}

\* The separator a caller passes to setSeparator.
Separators == {<<" ">>, <<NL>>}

RerenderArgs == {"true", "false", "undefined"}

\* The argument a caller passes to update.
UpdateArgs == {Value(<<Str(<<"b">>)>>), Fn("reverse"), Fn("throws")}

\* The text a caller passes to _outsideLineWritten.
OutsideArgs == {<<"e">>, <<"e", NL, "a">>, <<"e", NL, NL, "a">>}

\* --------------------------------------------------------------- methods

\* typeof content === "string" ? [content] : content
AsArray(content) == IF content.k = "string" THEN <<Str(content.s)>> ELSE content.a

\* The entry Output.dline creates: setSeparator(separator, false) is called
\* when the separator is not undefined.
DlineEntry(initialContent, separator) ==
  IF separator.def
  THEN SetSeparator(NewEntry(AsArray(initialContent)), separator.s, "false").entry
  ELSE NewEntry(AsArray(initialContent))

\* The entry Output.line creates: setSeparator(separator, false) is called
\* when the separator is truthy, and the entry is closed.
LineEntry(content, separator) ==
  IF separator.def /\ separator.s # <<>>
  THEN Close(SetSeparator(NewEntry(AsArray(content)), separator.s, "false").entry)
  ELSE Close(NewEntry(AsArray(content)))

\* The entry Output._outsideLineWritten creates, and whether its
\* setSeparator("\n") calls _rerender.
OutsideSetSeparator(lineContent) ==
  LET rows == SplitNL(lineContent)
  IN SetSeparator(NewEntry([i \in 1..Len(rows) |-> Str(rows[i])]), <<NL>>, "undefined")

OutsideEntry(lineContent) == Close(OutsideSetSeparator(lineContent).entry)

\* Output.dline
Dline(initialContent, separator) ==
  /\ nOps < MaxOps
  /\ Len(outEntries) < MaxEntries
  /\ outEntries' = Append(outEntries, DlineEntry(initialContent, separator))
  /\ Rerender(1)
  /\ handles' = handles \cup {Len(outEntries)}
  /\ ret' = This(Len(outEntries))
  /\ last' = Call("dline", Len(outEntries), "", 1, FALSE)
  /\ nOps' = nOps + 1
  /\ stdout' = <<>>
  /\ UNCHANGED <<currentBuffer, throttle, term, ext, wait, maxFps>>

\* Output.line
Line(content, separator) ==
  /\ nOps < MaxOps
  /\ Len(outEntries) < MaxEntries
  /\ outEntries' = Append(outEntries, LineEntry(content, separator))
  /\ Rerender(1)
  /\ ret' = RetUndefined
  /\ last' = Call("line", Len(outEntries), "", 1, FALSE)
  /\ nOps' = nOps + 1
  /\ stdout' = <<>>
  /\ UNCHANGED <<currentBuffer, throttle, term, handles, ext, wait, maxFps>>

\* Output._outsideLineWritten, called after lineContent and a line break
\* were written to the terminal by the caller.
OutsideLineWritten(lineContent) ==
  LET made == OutsideSetSeparator(lineContent)
      entry == OutsideEntry(lineContent)
      n == IF made.rerender THEN 1 ELSE 0
      rows == SplitNL(lineContent)
  IN /\ nOps < MaxOps
     /\ Len(outEntries) < MaxEntries
     /\ term' = WriteText(term, lineContent \o <<NL>>)
     /\ ext' = ext \o [k \in 1..Len(rows) |->
                         [row |-> term.cursor + k - 1, text |-> rows[k]]]
     /\ outEntries' = Append(outEntries, AfterGetContent(entry))
     /\ currentBuffer' = Put(currentBuffer, GetContent(entry))
     /\ Rerender(n)
     /\ ret' = RetUndefined
     /\ last' = Call("outside", Len(outEntries), "", n, FALSE)
     /\ nOps' = nOps + 1
     /\ stdout' = <<>>
     /\ UNCHANGED <<throttle, handles, wait, maxFps>>

\* entry.update(value), on the entry with index i
EntryUpdate(i, value) ==
  LET r == Update(outEntries[i + 1], value)
      n == IF r.rerender THEN 1 ELSE 0
  IN /\ nOps < MaxOps
     /\ i \in handles
     /\ outEntries' = [outEntries EXCEPT ![i + 1] = r.entry]
     /\ Rerender(n)
     /\ ret' = IF r.returnsThis THEN This(i) ELSE RetUndefined
     /\ last' = Call("update", i, "", n, r.threw)
     /\ nOps' = nOps + 1
     /\ stdout' = <<>>
     /\ UNCHANGED <<currentBuffer, throttle, term, handles, ext, wait, maxFps>>

\* entry.setSeparator(separator, rerender)
EntrySetSeparator(i, separator, rerender) ==
  LET r == SetSeparator(outEntries[i + 1], separator, rerender)
      n == IF r.rerender THEN 1 ELSE 0
  IN /\ nOps < MaxOps
     /\ i \in handles
     /\ outEntries' = [outEntries EXCEPT ![i + 1] = r.entry]
     /\ Rerender(n)
     /\ ret' = This(i)
     /\ last' = Call("setSeparator", i, rerender, n, FALSE)
     /\ nOps' = nOps + 1
     /\ stdout' = <<>>
     /\ UNCHANGED <<currentBuffer, throttle, term, handles, ext, wait, maxFps>>

\* entry.delete()
EntryDelete(i) ==
  /\ nOps < MaxOps
  /\ i \in handles
  /\ outEntries' = [outEntries EXCEPT ![i + 1] = Delete(outEntries[i + 1])]
  /\ Rerender(1)
  /\ ret' = This(i)
  /\ last' = Call("delete", i, "", 1, FALSE)
  /\ nOps' = nOps + 1
  /\ stdout' = <<>>
  /\ UNCHANGED <<currentBuffer, throttle, term, handles, ext, wait, maxFps>>

\* entry.close()
EntryClose(i) ==
  /\ nOps < MaxOps
  /\ i \in handles
  /\ outEntries' = [outEntries EXCEPT ![i + 1] = Close(outEntries[i + 1])]
  /\ Rerender(0)
  /\ ret' = This(i)
  /\ last' = Call("close", i, "", 0, FALSE)
  /\ nOps' = nOps + 1
  /\ stdout' = <<>>
  /\ UNCHANGED <<currentBuffer, throttle, term, handles, ext, wait, maxFps>>

\* entry.getContent()
EntryGetContent(i) ==
  /\ nOps < MaxOps
  /\ i \in handles
  /\ outEntries' = [outEntries EXCEPT ![i + 1] = AfterGetContent(outEntries[i + 1])]
  /\ Rerender(0)
  /\ ret' = [k |-> "lines", e |-> i]
  /\ last' = Call("getContent", i, "", 0, FALSE)
  /\ nOps' = nOps + 1
  /\ stdout' = <<>>
  /\ UNCHANGED <<currentBuffer, throttle, term, handles, ext, wait, maxFps>>

Next ==
  \/ \E a \in DlineArgs : Dline(a[1], a[2])
  \/ \E a \in LineArgs : Line(a[1], a[2])
  \/ \E t \in OutsideArgs : OutsideLineWritten(t)
  \/ \E i \in handles, v \in UpdateArgs : EntryUpdate(i, v)
  \/ \E i \in handles, s \in Separators, r \in RerenderArgs : EntrySetSeparator(i, s, r)
  \/ \E i \in handles : EntryDelete(i)
  \/ \E i \in handles : EntryClose(i)
  \/ \E i \in handles : EntryGetContent(i)
  \/ TimerFire
  \/ ThrottleElapse

Spec == Init /\ [][Next]_vars

\* A pending timer fires: in Spec the steps that take one timer away are the
\* TimerFire steps, and one is possible whenever a timer is pending.
TimerFires == timers > 0 /\ timers' = timers - 1

\* The wait period of the throttle ends: in Spec the steps that change the
\* throttle in this way are the ThrottleElapse steps, and one is possible
\* whenever the throttle is in its wait period.
ThrottleElapses == throttle.cooling /\ throttle' = ThrottleWaited(throttle).throttle

\* Timers fire: a pending setTimeout callback runs, and the wait period of
\* the throttle ends.  Fairness is stated on TimerFires and ThrottleElapses,
\* which name the TimerFire and ThrottleElapse steps by the one variable
\* each is known by, and are enabled exactly when those actions are.
LiveSpec == Spec /\ WF_timers(TimerFires) /\ WF_throttle(ThrottleElapses)

\* The calls of setMaxFps alone: they change nothing but the wait period.
FpsNext == \E fps \in 1..MaxFps : SetMaxFps(fps)

FpsSpec == Init /\ [][FpsNext]_vars

\* ---------------------------------------------------------------- claims

\* The entry of the last step, and the same entry before the step.
LastEntry == outEntries[last.e + 1]

\* The line texts getContent() returns for an entry.
ContentTexts(entry) == Texts(GetContent(entry))

\* The line texts of the candidate buffer built from the entries.
CandidateTexts(entries) == Texts(BuildBuffer(entries, EmptyBuffer).lines)

\* C1: an update() call (value or function) on a closed entry leaves the
\* line texts getContent() returns as they were before the call, so any
\* sequence of such calls after close() does.
C1_UpdateAfterCloseKeepsContent ==
  [][(last'.op = "update" /\ outEntries[last'.e + 1].isClosed)
       => ContentTexts(outEntries'[last'.e + 1]) = ContentTexts(outEntries[last'.e + 1])]_vars

\* An update was called on an entry that was closed, not deleted.
C1_Witness ==
  /\ last.op = "update"
  /\ LastEntry.isClosed
  /\ ~LastEntry.isDeleted
  /\ ContentTexts(LastEntry) # <<<<"b">>>>

\* C2, as stated: a deleted entry is closed and deleted for ever, and
\* getContent() returns the empty sequence of lines.
C2_DeletedContentIsEmpty ==
  \A i \in 1..Len(outEntries) :
    outEntries[i].isDeleted => (outEntries[i].isClosed /\ GetContent(outEntries[i]) = <<>>)

\* C2, amended: a deleted entry is closed and deleted for ever, and
\* getContent() returns exactly one line, whose text is empty; a render pass
\* skips the entry, so that it adds no line to the candidate buffer.
C2_DeletedContentIsOneEmptyLine ==
  /\ [](\A i \in 1..Len(outEntries) :
          outEntries[i].isDeleted =>
            /\ outEntries[i].isClosed
            /\ ContentTexts(outEntries[i]) = <<<<>>>>
            /\ CandidateTexts(<<outEntries[i]>>) = <<>>)
  /\ [][\A i \in 1..Len(outEntries) :
          outEntries[i].isDeleted =>
            (outEntries'[i].isDeleted /\ outEntries'[i].isClosed)]_vars

\* A method was called on an entry after its delete().
C2_Witness ==
  /\ last.op \in {"update", "setSeparator", "getContent"}
  /\ LastEntry.isDeleted

\* C3: at the end of a render pass the line texts of the displayed buffer
\* are those of getContent() of the entries that are not deleted, in the
\* order of creation, whatever the order in which entries were closed.
C3_RenderShowsContent ==
  last.pass => Texts(currentBuffer.lines) = CandidateTexts(outEntries)

\* A render pass after four calls: two dlines, the second entry closed, the
\* first updated; the displayed buffer shows the update.
C3_Witness ==
  /\ last.pass
  /\ nOps = 4
  /\ Len(outEntries) = 2
  /\ handles = {0, 1}
  /\ ~outEntries[1].isClosed
  /\ outEntries[2].isClosed
  /\ ~outEntries[2].isDeleted
  /\ outEntries[1].content = <<Str(<<"b">>)>>
  /\ currentBuffer.lines[1].content = <<"b">>

\* C4: the render requests made while a timer is pending leave one timer
\* pending, whose callback calls runThrottled once and leaves no timer
\* behind; and a render pass builds the displayed buffer from the entries as
\* they are when it runs.
C4_OneInvocationPerWindow ==
  /\ [](timers <= 1 /\ (windowReqs >= 1 <=> timers = 1))
  /\ [][(last'.op = "timer") =>
          (windowReqs >= 1 /\ last'.invoked = 1 /\ timers' = 0 /\ windowReqs' = 0)]_vars
  /\ [][last'.pass => Texts(currentBuffer'.lines) = CandidateTexts(outEntries)]_vars

\* A timer that stood for two or more requests fired and its render pass ran.
C4_Witness == last.op = "timer" /\ last.reqs >= 2 /\ last.pass /\ last.invoked = 1

\* C5: when timers fire, a render request is followed by a render pass (a
\* pass reads the entries when it runs, so it is as recent as the request):
\* again and again no request is left without a pass, which says the same
\* as dirty ~> ~dirty.  And a pending timer goes away only by firing.
C5_RequestLeadsToRender ==
  /\ []<>(~dirty)
  /\ [][timers' < timers => last'.op = "timer"]_vars

\* A trailing render pass of the throttle answered a request.
C5_Witness == last.op = "throttle" /\ last.pass /\ ~dirty /\ nOps > 0

\* C6: update() returns the entry on every call.
C6_UpdateReturnsHandle == last.op = "update" => ret = This(last.e)

\* C7: update() with a function that throws, on an open entry: the content
\* and the line texts of getContent() are as before, _rerender is not
\* called, and the flag and the pending timers are as before.
C7_ThrowKeepsContentNoRender ==
  [][(last'.op = "update" /\ last'.threw) =>
       /\ outEntries'[last'.e + 1].content = outEntries[last'.e + 1].content
       /\ ContentTexts(outEntries'[last'.e + 1]) = ContentTexts(outEntries[last'.e + 1])
       /\ last'.rerenders = 0
       /\ isRenderQueued' = isRenderQueued
       /\ timers' = timers
       /\ ret' = This(last'.e)]_vars

\* The function of an update threw on an open entry while no render was queued.
C7_Witness ==
  /\ last.op = "update"
  /\ last.threw
  /\ ~LastEntry.isClosed
  /\ ~isRenderQueued
  /\ timers = 0

\* C8: setSeparator() on a closed entry leaves the separator and the line
\* texts of getContent() as they were and does not call _rerender.
C8_SetSeparatorOnClosedDropped ==
  [][(last'.op = "setSeparator" /\ outEntries[last'.e + 1].isClosed) =>
       /\ outEntries'[last'.e + 1].separator = outEntries[last'.e + 1].separator
       /\ ContentTexts(outEntries'[last'.e + 1]) = ContentTexts(outEntries[last'.e + 1])
       /\ last'.rerenders = 0]_vars

\* C9: setSeparator(value) without a second argument, on an open entry,
\* calls _rerender when value differs from the separator, and does not when
\* it is the same.
C9_RerenderDefaultsToTrue ==
  [][(last'.op = "setSeparator" /\ last'.arg = "undefined"
        /\ ~outEntries[last'.e + 1].isClosed) =>
       (last'.rerenders = 1 <=>
          outEntries'[last'.e + 1].separator # outEntries[last'.e + 1].separator)]_vars

\* C10: the rows of the terminal that held a text when _outsideLineWritten
\* registered it hold that text in every later state.
C10_OutsideRowsKept ==
  \A k \in 1..Len(ext) : PadRows(term.rows, ext[k].row)[ext[k].row + 1] = ext[k].text

\* C11: before any setMaxFps call the wait period of the throttle is 1000 ms;
\* after setMaxFps(fps) with a positive integer fps it is floor(1000 / fps)
\* but never below 1: the largest w with w * fps <= 1000 when there is one
\* that is positive, 1 for every fps >= 1000 and 1000 for fps = 1.
C11_MaxFpsPeriod ==
  /\ maxFps = 0 => wait = 1000
  /\ maxFps > 0 =>
       /\ wait >= 1
       /\ maxFps <= 1000 => wait * maxFps <= 1000 /\ 1000 < (wait + 1) * maxFps
       /\ maxFps >= 1000 => wait = 1
       /\ maxFps = 1 => wait = 1000

C11_Witness == maxFps > 1000 /\ wait = 1

\* C12: the first-open-line marker of the displayed Buffer is the index, in
\* the whole Line sequence of the Buffer, of its first Line tagged as open,
\* and is 0 when no Line is open.
C12_MarkerIsFirstOpenLine ==
  LET lines == currentBuffer.lines
      open == {i \in 1..Len(lines) : ~lines[i].entryClosed}
  IN currentBuffer.firstOpenLineIdx =
       IF open = {} THEN 0 ELSE (CHOOSE i \in open : \A j \in open : i <= j) - 1

\* C13: for the displayed Buffer and the candidate Buffer built from the
\* entries, findFirstDifferentLine returns null exactly when the two have
\* the same line texts, and otherwise the index k at which the texts first
\* differ: the texts before k are equal, and at k the texts differ or one
\* side has no Line.  This holds for every such pair, so also for the pairs
\* whose entries before k are closed.
C13_FirstDifferenceFound ==
  LET A == Texts(currentBuffer.lines)
      B == CandidateTexts(outEntries)
      k == FindFirstDifferentLine(currentBuffer, BuildBuffer(outEntries, EmptyBuffer))
  IN /\ (k = Null) <=> (A = B)
     /\ k # Null =>
          /\ k >= 0 /\ k <= Len(A) /\ k <= Len(B)
          /\ SubSeq(A, 1, k) = SubSeq(B, 1, k)
          /\ k = Len(A) \/ k = Len(B) \/ A[k + 1] # B[k + 1]
          /\ ~(k = Len(A) /\ k = Len(B))

\* A closed Line comes first in both Buffers and the first difference is at 1.
C13_Witness ==
  /\ Len(currentBuffer.lines) >= 2
  /\ currentBuffer.lines[1].entryClosed
  /\ outEntries[1].isClosed
  /\ FindFirstDifferentLine(currentBuffer, BuildBuffer(outEntries, EmptyBuffer)) = 1

\* C14: a render pass with first differing index s, N displayed lines and M
\* candidate lines issues exactly these terminal operations, in this order:
\* min(N-s, M-s) rewrites, the one of row j = s, s+1, ... moving the cursor
\* up N-j rows, clearing the row, writing the text of candidate line j and
\* moving the cursor down N-j rows; then max(0, N-M) row deletions; then the
\* candidate lines N..M-1, each followed by a newline.
C14_PassOperationsInOrder ==
  [][LET T == CandidateTexts(outEntries)
         N == Len(currentBuffer.lines)
         M == Len(T)
         s == FindFirstDifferentLine(currentBuffer, BuildBuffer(outEntries, EmptyBuffer))
         R == Min(N - s, M - s)
         D == Max(0, N - M)
         A == Max(0, M - N)
     IN (last'.pass /\ s # Null) =>
          /\ R >= 0
          /\ Len(stdout') = 4 * R + D + A
          /\ \A j \in s..(s + R - 1) :
                /\ stdout'[4 * (j - s) + 1] = [op |-> "moveCursor", dy |-> -(N - j), text |-> <<>>]
                /\ stdout'[4 * (j - s) + 2].op = "clearLine"
                /\ stdout'[4 * (j - s) + 3] = [op |-> "write", dy |-> 0, text |-> <<CR>> \o T[j + 1] \o <<CR>>]
                /\ stdout'[4 * (j - s) + 4] = [op |-> "moveCursor", dy |-> N - j, text |-> <<>>]
          /\ \A d \in 1..D : stdout'[4 * R + d].op = "scrollErase"
          /\ \A a \in 1..A :
                stdout'[4 * R + D + a] = [op |-> "write", dy |-> 0, text |-> T[N + a] \o <<NL>>]
    ]_vars

\* A pass has rewritten a row and deleted a row.
C14_Witness ==
  /\ last.pass
  /\ \E p, q \in 1..Len(stdout) :
        p < q /\ stdout[p].op = "moveCursor" /\ stdout[q].op = "scrollErase"

\* C15: when the rows of the terminal are the line texts of the displayed
\* Buffer and the cursor is on the row below the last one, they are so
\* again, for the new displayed Buffer, after a render pass.
C15_TerminalShowsBuffer ==
  [][LET Agree(t, b) == Shown(t) = Texts(b.lines) /\ t.cursor = Len(b.lines)
     IN (last'.pass /\ Agree(term, currentBuffer)) => Agree(term', currentBuffer')
    ]_vars

\* A pass that deleted a row has left the terminal showing the Buffer.
C15_Witness ==
  /\ last.pass
  /\ currentBuffer.lines # <<>>
  /\ \E p \in 1..Len(stdout) : stdout[p].op = "scrollErase"
  /\ Shown(term) = Texts(currentBuffer.lines)
  /\ term.cursor = Len(currentBuffer.lines)

\* C16: in a render pass with first differing index s, on a terminal that
\* shows the displayed Buffer, every operation that clears, writes or
\* deletes a row acts on a row with index s or more, and the rows before s
\* are the same after the pass.
C16_RowsBeforeDifferenceKept ==
  [][LET s == FindFirstDifferentLine(currentBuffer, BuildBuffer(outEntries, EmptyBuffer))
         At(p) == ApplyOps(term, SubSeq(stdout', 1, p - 1)).cursor
     IN (/\ last'.pass
         /\ s # Null
         /\ Shown(term) = Texts(currentBuffer.lines)
         /\ term.cursor = Len(currentBuffer.lines)) =>
          /\ \A p \in 1..Len(stdout') :
                /\ stdout'[p].op \in {"clearLine", "write"} => At(p) >= s
                /\ stdout'[p].op = "scrollErase" => At(p) - 1 >= s
          /\ term'.cursor >= s
          /\ SubSeq(Shown(term'), 1, s) = SubSeq(Shown(term), 1, s)
    ]_vars

\* A pass has rewritten the second of two rows and nothing else.
C16_Witness ==
  /\ last.pass
  /\ Len(currentBuffer.lines) = 2
  /\ Len(stdout) = 4
  /\ stdout[1].op = "moveCursor" /\ stdout[1].dy = -1

\* C17: a render pass whose candidate Buffer does not differ from the
\* displayed Buffer issues no terminal operation and leaves the terminal
\* and the displayed Buffer, with its Lines and their tags, as they were.
C17_NoDifferenceNoEffect ==
  [][(/\ last'.pass
      /\ FindFirstDifferentLine(currentBuffer, BuildBuffer(outEntries, EmptyBuffer)) = Null) =>
       (stdout' = <<>> /\ term' = term /\ currentBuffer' = currentBuffer)
    ]_vars

\* A pass has issued no operation, and the displayed Buffer still has a
\* Line tagged open although every entry is closed by now.
C17_Witness ==
  /\ last.pass
  /\ stdout = <<>>
  /\ \E i \in 1..Len(currentBuffer.lines) : ~currentBuffer.lines[i].entryClosed
  /\ \A e \in 1..Len(outEntries) : outEntries[e].isClosed

\* C18: _outsideLineWritten(text) appends one closed entry, appends to the
\* displayed Buffer one Line per row of text, empty rows included, in
\* order, with the text of the row and tagged closed, issues no terminal
\* operation and requests no render.
C18_OutsideRowsRegistered ==
  [][\A text \in OutsideArgs :
       OutsideLineWritten(text) =>
         /\ Len(outEntries') = Len(outEntries) + 1
         /\ outEntries'[Len(outEntries')].isClosed
         /\ currentBuffer'.lines = currentBuffer.lines \o
               [k \in 1..Len(SplitNL(text)) |->
                  [content |-> SplitNL(text)[k], entryClosed |-> TRUE]]
         /\ stdout' = <<>>
         /\ timers' = timers /\ isRenderQueued' = isRenderQueued
    ]_vars

\* C19: line(content, separator) creates a closed entry whose line texts
\* are the non-falsy fields joined by that separator, the texts of the
\* entry dline(content, separator) creates.
C19_LineRendersAsDline ==
  [][\A a \in LineArgs :
       Line(a[1], a[2]) =>
         /\ outEntries'[Len(outEntries')].isClosed
         /\ ContentTexts(outEntries'[Len(outEntries')]) = ContentTexts(DlineEntry(a[1], a[2]))
         /\ a[2].def =>
              ContentTexts(outEntries'[Len(outEntries')])
                = LET f == FilterTruthy(AsArray(a[1]))
                  IN SplitNL(Join([i \in 1..Len(f) |-> ToText(f[i])], a[2].s))
    ]_vars

\* C20: at most one timer of _rerender is pending and isRenderQueued is
\* true exactly while one is; a request made while the flag is set starts
\* no timer, a request made while it is clear starts one and sets the flag,
\* and the callback of the timer clears the flag, so a request made after
\* it has run starts a new timer.
C20_FlagIsPendingTimer ==
  /\ [](timers \in {0, 1} /\ (isRenderQueued <=> timers = 1))
  /\ [][(last'.rerenders > 0 /\ last'.op \notin {"timer", "throttle"}) =>
          IF isRenderQueued
          THEN timers' = timers /\ isRenderQueued'
          ELSE timers' = timers + 1 /\ isRenderQueued']_vars
  /\ [][(last'.op = "timer") =>
          (isRenderQueued /\ ~isRenderQueued' /\ timers' = timers - 1)]_vars

\* After a timer has fired, a request has started a new one.
C20_Witness ==
  /\ last.rerenders > 0
  /\ isRenderQueued /\ timers = 1
  /\ windowReqs = 1
  /\ throttle.cooling

====
